---- MODULE Spec2Model ----
(***************************************************************************)
(* Model of format.py, the DAO SQL-literal formatter.                      *)
(*                                                                         *)
(* A Python string is a sequence of one-character strings.  The pure       *)
(* functions of format.py are operators over such sequences, computed      *)
(* character by character as the code computes them.  Three                *)
(* specifications drive them:                                              *)
(*   SpecFormat   format_sql applied to a bounded set of SQL texts         *)
(*   SpecRewrite  process_file's re.sub applied to bounded file texts      *)
(*   Spec         main: the directory walk with per-file try/except        *)
(***************************************************************************)
EXTENDS Integers, Sequences, FiniteSets

VARIABLES
    sql_text,         \* format_sql: the sql_text argument
    base_indent,      \* format_sql: the base_indent argument
    parts,            \* format_sql: the clause list after segmentation
    formatted_parts,  \* format_sql: the rendered, unpadded lines
    formatted_lines,  \* format_sql: the returned lines
    fpc,              \* "call" before format_sql ran, "done" after ("idle": unused)
    content,          \* process_file: the text read from the file
    new_content,      \* process_file: the text written back
    sites,            \* process_file: one record per replace_sql call
    rpc,              \* "read", then "written" or "raised" ("idle": unused)
    tree,             \* main: file name -> text on disk when main starts
    fs,               \* main: file name -> text on disk
    todo,             \* main: names os.walk has not yielded yet
    attempts,         \* main: file name -> number of process_file calls
    stdout,           \* main: lines printed to standard output
    stderr,           \* main: lines printed to standard error
    dpc               \* "walk", then "exit" after the completion line, or
                      \* "crashed" on an uncaught exception ("idle": unused)

fvars == <<sql_text, base_indent, parts, formatted_parts, formatted_lines, fpc>>
rvars == <<content, new_content, sites, rpc>>
dvars == <<tree, fs, todo, attempts, stdout, stderr, dpc>>
vars == <<fvars, rvars, dvars>>

----------------------------------------------------------------------------
(* Characters and Python string primitives                                 *)

SP == " "
NL == "\n"
COMMA == ","
QUOTE == "\""
PLUS == "+"
LPAREN == "("

\* the characters \s, str.strip() and str.split() treat as whitespace
Whitespace == {" ", "\n", "\t"}

LowerCase == <<"a", "b", "c", "d", "e", "f", "g", "h", "i", "j", "k", "l", "m",
               "n", "o", "p", "q", "r", "s", "t", "u", "v", "w", "x", "y", "z">>
UpperCase == <<"A", "B", "C", "D", "E", "F", "G", "H", "I", "J", "K", "L", "M",
               "N", "O", "P", "Q", "R", "S", "T", "U", "V", "W", "X", "Y", "Z">>

UpperChar(c) ==
    IF \E i \in 1..Len(LowerCase) : LowerCase[i] = c
    THEN UpperCase[CHOOSE i \in 1..Len(LowerCase) : LowerCase[i] = c]
    ELSE c

\* str.upper()
Upper(s) == [i \in 1..Len(s) |-> UpperChar(s[i])]

\* " " * n  (the empty string when n <= 0)
Spaces(n) == [i \in 1..n |-> SP]

RECURSIVE LStripWS(_)
LStripWS(s) ==
    IF s # <<>> /\ Head(s) \in Whitespace THEN LStripWS(Tail(s)) ELSE s

\* re.sub(r'\s+$', '', s): drop the trailing whitespace
RECURSIVE RStripWS(_)
RStripWS(s) ==
    IF s # <<>> /\ s[Len(s)] \in Whitespace
    THEN RStripWS(SubSeq(s, 1, Len(s) - 1))
    ELSE s

\* str.strip()
StripWS(s) == RStripWS(LStripWS(s))

\* re.sub(r'\s+', ' ', s): every whitespace run becomes one space
RECURSIVE CollapseWS(_)
CollapseWS(s) ==
    IF s = <<>> THEN <<>>
    ELSE IF Head(s) \in Whitespace
         THEN <<SP>> \o CollapseWS(LStripWS(s))
         ELSE <<Head(s)>> \o CollapseWS(Tail(s))

\* the length of the longest prefix of s without a character of stop
RECURSIVE SpanUntil(_, _)
SpanUntil(s, stop) ==
    IF s = <<>> \/ Head(s) \in stop THEN 0 ELSE 1 + SpanUntil(Tail(s), stop)

\* str.split(): the maximal runs of non-whitespace, in order
RECURSIVE SplitWS(_)
SplitWS(s) ==
    LET t == LStripWS(s)
        n == SpanUntil(t, Whitespace)
    IN  IF t = <<>> THEN <<>>
        ELSE <<SubSeq(t, 1, n)>> \o SplitWS(SubSeq(t, n + 1, Len(t)))

\* sep.join(items)
RECURSIVE Join(_, _)
Join(items, sep) ==
    IF items = <<>> THEN <<>>
    ELSE IF Len(items) = 1 THEN items[1]
    ELSE items[1] \o sep \o Join(Tail(items), sep)

\* str.rstrip(',')
RECURSIVE RStripComma(_)
RStripComma(s) ==
    IF s # <<>> /\ s[Len(s)] = COMMA
    THEN RStripComma(SubSeq(s, 1, Len(s) - 1))
    ELSE s

\* str.split(','): every field between commas, empty fields included
RECURSIVE SplitComma(_)
SplitComma(s) ==
    LET n == SpanUntil(s, {COMMA})
    IN  IF n = Len(s) THEN <<s>>
        ELSE <<SubSeq(s, 1, n)>> \o SplitComma(SubSeq(s, n + 2, Len(s)))

\* ',' in s
HasComma(s) == \E i \in 1..Len(s) : s[i] = COMMA

Max(a, b) == IF a >= b THEN a ELSE b

\* F applied to the value of v, v evaluated once (a local name for v)
Bind(v, F(_)) == CHOOSE r \in { F(x) : x \in {v} } : TRUE

----------------------------------------------------------------------------
(* format.py: find_max_length, pad_line, is_sql_keyword, split_variables   *)

keywords ==
    { <<"S", "E", "L", "E", "C", "T">>,
      <<"F", "R", "O", "M">>,
      <<"W", "H", "E", "R", "E">>,
      <<"O", "R", "D", "E", "R", " ", "B", "Y">>,
      <<"G", "R", "O", "U", "P", " ", "B", "Y">>,
      <<"H", "A", "V", "I", "N", "G">>,
      <<"L", "I", "M", "I", "T">>,
      <<"O", "F", "F", "S", "E", "T">>,
      <<"I", "N", "S", "E", "R", "T">>,
      <<"U", "P", "D", "A", "T", "E">>,
      <<"D", "E", "L", "E", "T", "E">>,
      <<"J", "O", "I", "N">>,
      <<"L", "E", "F", "T", " ", "J", "O", "I", "N">>,
      <<"R", "I", "G", "H", "T", " ", "J", "O", "I", "N">>,
      <<"I", "N", "N", "E", "R", " ", "J", "O", "I", "N">>,
      <<"V", "A", "L", "U", "E", "S">>,
      <<"S", "E", "T">>,
      <<"A", "N", "D">>,
      <<"O", "R">>,
      <<"O", "N">>,
      <<"I", "N", "T", "O">>,
      <<"C", "O", "M", "M", "I", "T">> }

\* is_sql_keyword without the call of upper()
is_sql_keyword_exact(word) == word \in keywords

is_sql_keyword(word) == Upper(word) \in keywords

RECURSIVE find_max_len(_, _)
find_max_len(all_parts, max_len) ==
    IF all_parts = <<>> THEN max_len
    ELSE find_max_len(Tail(all_parts),
                      Max(max_len, Len(RStripWS(Head(all_parts)))))

\* find_max_length returning the longest length itself
find_max_length_noplus(all_parts) == find_max_len(all_parts, 0)

find_max_length(all_parts) == find_max_len(all_parts, 0) + 1

pad_line(line, max_length) ==
    LET cleaned == RStripWS(line)
    IN  cleaned \o Spaces(max_length - Len(cleaned))

\* [part.strip() for part in text.split(',') if part.strip()]
RECURSIVE StripNonEmpty(_)
StripNonEmpty(fields) ==
    IF fields = <<>> THEN <<>>
    ELSE IF StripWS(Head(fields)) = <<>> THEN StripNonEmpty(Tail(fields))
    ELSE <<StripWS(Head(fields))>> \o StripNonEmpty(Tail(fields))

\* split_variables losing the last item
split_variables_droplast(text) ==
    LET items == StripNonEmpty(SplitComma(RStripComma(text)))
    IN  [i \in 1..(Len(items) - 1) |-> items[i] \o <<COMMA>>]

\* split_variables adding the comma back to every item
split_variables_allcommas(text) ==
    LET items == StripNonEmpty(SplitComma(RStripComma(text)))
    IN  [i \in 1..Len(items) |-> items[i] \o <<COMMA>>]

split_variables(text) ==
    LET items == StripNonEmpty(SplitComma(RStripComma(text)))
    IN  [i \in 1..Len(items) |->
            IF i < Len(items) THEN items[i] \o <<COMMA>> ELSE items[i]]

----------------------------------------------------------------------------
(* format.py: format_sql                                                   *)

Marker == <<SP, SP>>

IndentExtra == 16

\* the while loop over words: parts built so far, current_part, position i
RECURSIVE SegmentFrom(_, _, _, _)
SegmentFrom(words, i, acc, current_part) ==
    LET flushed == IF current_part # <<>>
                   THEN Append(acc, Join(current_part, <<SP>>))
                   ELSE acc
    IN  IF i > Len(words) THEN flushed
        ELSE IF i < Len(words)
                /\ is_sql_keyword(words[i] \o <<SP>> \o words[i + 1])
             THEN SegmentFrom(words, i + 2,
                              Append(flushed, words[i] \o <<SP>> \o words[i + 1]),
                              <<>>)
        ELSE IF is_sql_keyword(words[i])
             THEN SegmentFrom(words, i + 1, Append(flushed, words[i]), <<>>)
        ELSE SegmentFrom(words, i + 1, acc, Append(current_part, words[i]))

Segment(words) == SegmentFrom(words, 1, <<>>, <<>>)

\* the lines one clause renders to
RenderPart(part) ==
    IF is_sql_keyword(part) THEN <<part>>
    ELSE IF HasComma(part)
         THEN LET variables == split_variables(part)
              IN  [i \in 1..Len(variables) |-> Marker \o variables[i]]
    ELSE <<Marker \o part>>

RECURSIVE Render(_)
Render(ps) ==
    IF ps = <<>> THEN <<>> ELSE RenderPart(Head(ps)) \o Render(Tail(ps))

Emit(fparts, indent) ==
    LET max_length == find_max_length(fparts)
        sql_indent == Spaces(Len(indent) + IndentExtra)
    IN  [i \in 1..Len(fparts) |->
            IF i = 1
            THEN sql_indent \o <<QUOTE>> \o pad_line(fparts[i], max_length)
                            \o <<QUOTE>>
            ELSE sql_indent \o <<PLUS, SP, QUOTE>>
                            \o pad_line(fparts[i], max_length) \o <<QUOTE>>]

Clean(text) == CollapseWS(StripWS(text))

format_sql(text, indent) ==
    Emit(Render(Segment(SplitWS(Clean(text)))), indent)

----------------------------------------------------------------------------
(* format.py: get_base_indentation, and process_file's sql_pattern         *)

\* re.match(r'^\s*', line).group(0): the leading whitespace of line
get_base_indentation(line) == SubSeq(line, 1, Len(line) - Len(LStripWS(line)))

\* the alternatives of sql_pattern, in the order the pattern lists them
MethodNames ==
    << <<"c", "r", "e", "a", "t", "e", "Q", "u", "e", "r", "y">>,
       <<"c", "r", "e", "a", "t", "e", "U", "p", "d", "a", "t", "e">>,
       <<"p", "r", "e", "p", "a", "r", "e", "B", "a", "t", "c", "h">>,
       <<"c", "o", "m", "m", "i", "t">> >>

createQuery == MethodNames[1]
createUpdate == MethodNames[2]
prepareBatch == MethodNames[3]
commit == MethodNames[4]

\* s[p:].startswith(lit), positions counted from 1
StartsWithAt(s, p, lit) ==
    /\ p >= 1
    /\ p + Len(lit) - 1 <= Len(s)
    /\ SubSeq(s, p, p + Len(lit) - 1) = lit

\* lit in s
Contains(s, lit) == \E p \in 1..Len(s) : StartsWithAt(s, p, lit)

\* \s* from position p: the first position at or after p that holds no
\* whitespace (Len(s) + 1 when the text ends first)
RECURSIVE SkipWS(_, _)
SkipWS(s, p) ==
    IF p <= Len(s) /\ s[p] \in Whitespace THEN SkipWS(s, p + 1) ELSE p

\* [^"]* from position p: the position of the next double quote, 0 if none
RECURSIVE NextQuote(_, _)
NextQuote(s, p) ==
    IF p > Len(s) THEN 0
    ELSE IF s[p] = QUOTE THEN p
    ELSE NextQuote(s, p + 1)

CharAt(s, p) == IF p >= 1 /\ p <= Len(s) THEN s[p] ELSE ""

\* "\s*\+\s*" at position q: the position of its second quote, 0 if the
\* text at q is no such joiner
JoinerEnd(s, q) ==
    LET plus == SkipWS(s, q + 1)
        quote2 == SkipWS(s, plus + 1)
    IN  IF CharAt(s, q) = QUOTE /\ CharAt(s, plus) = PLUS
           /\ CharAt(s, quote2) = QUOTE
        THEN quote2 ELSE 0

\* sql_pattern without the repetition of joined fragments
ClosingQuote_first(s, q) == q

\* (?:\s*"\s*\+\s*"[^"]+)*" with the quote at q ending the fragment before
\* it: the greedy repetition takes every further fragment that is joined by
\* a joiner, is not empty and is itself closed by a quote; the result is the
\* position of the quote that ends the match
RECURSIVE ClosingQuote(_, _)
ClosingQuote(s, q) ==
    LET j == JoinerEnd(s, q)
        next == IF j = 0 THEN 0 ELSE NextQuote(s, j + 1)
    IN  IF j # 0 /\ next > j + 1 THEN ClosingQuote(s, next) ELSE q

\* sql_pattern tried at position p: whether it matches, where group(0)
\* ends, and where group(1) starts and ends
MatchAt(s, p) ==
    LET names == { k \in 1..Len(MethodNames) : StartsWithAt(s, p, MethodNames[k]) }
        k == CHOOSE k \in names : \A other \in names : k <= other
        paren == p + Len(MethodNames[k])
        open == SkipWS(s, paren + 1)
        first == NextQuote(s, open + 1)
        none == [ok |-> FALSE, stop |-> 0, g1from |-> 0, g1to |-> 0]
    IN  IF names = {} THEN none
        ELSE IF CharAt(s, paren) # LPAREN \/ CharAt(s, open) # QUOTE THEN none
        ELSE IF first <= open + 1 THEN none
        ELSE [ok |-> TRUE, stop |-> ClosingQuote(s, first),
              g1from |-> open + 1, g1to |-> ClosingQuote(s, first) - 1]

\* the leftmost position at or after pos where sql_pattern matches, 0 if none
RECURSIVE FindMatch(_, _)
FindMatch(s, pos) ==
    IF pos > Len(s) THEN 0
    ELSE IF MatchAt(s, pos).ok THEN pos
    ELSE FindMatch(s, pos + 1)

----------------------------------------------------------------------------
(* format.py: process_file.replace_sql and process_file                    *)

\* re.sub(r'"\s*\+\s*"', ' ', sql_text)
RECURSIVE MergeContinuations(_)
MergeContinuations(s) ==
    IF s = <<>> THEN <<>>
    ELSE IF JoinerEnd(s, 1) # 0
         THEN <<SP>> \o MergeContinuations(SubSeq(s, JoinerEnd(s, 1) + 1, Len(s)))
    ELSE <<Head(s)>> \o MergeContinuations(Tail(s))

\* the chain method = 'createQuery'; if 'createUpdate' in ...; elif ...
DetectMethod(original_line) ==
    IF Contains(original_line, createUpdate) THEN createUpdate
    ELSE IF Contains(original_line, prepareBatch) THEN prepareBatch
    ELSE IF Contains(original_line, commit) THEN commit
    ELSE createQuery

\* re.search(f'{method}\\(\\s*"', original_line): the start of the first
\* match, 0 when there is none (re.search returns None)
QueryStart(method, original_line) ==
    LET hits == { p \in 1..Len(original_line) :
                    /\ StartsWithAt(original_line, p, method)
                    /\ CharAt(original_line, p + Len(method)) = LPAREN
                    /\ CharAt(original_line,
                              SkipWS(original_line, p + Len(method) + 1)) = QUOTE }
    IN  IF hits = {} THEN 0
        ELSE CHOOSE p \in hits : \A other \in hits : p <= other

\* replace_sql without the return of group(0) for an empty block
replace_sql_noguard(group0, group1) ==
    LET merged == MergeContinuations(group1)
        original_line == group0
        indent == get_base_indentation(original_line)
        lines == format_sql(merged, indent)
        method == DetectMethod(original_line)
        query_start == QueryStart(method, original_line)
        site == [sql |-> merged, indent |-> indent, lines |-> lines,
                 raised |-> FALSE, repl |-> <<>>]
    IN  IF query_start = 0 THEN [site EXCEPT !.raised = TRUE]
        ELSE [site EXCEPT !.repl =
                 SubSeq(original_line, 1, query_start - 1)
                 \o method \o <<LPAREN, NL>> \o Join(lines, <<NL>>)]

\* replace_sql(match), given group(0) and group(1); raised is the
\* AttributeError of None.start()
replace_sql(group0, group1) ==
    LET merged == MergeContinuations(group1)
        original_line == group0
        indent == get_base_indentation(original_line)
        lines == format_sql(merged, indent)
        method == DetectMethod(original_line)
        query_start == QueryStart(method, original_line)
        site == [sql |-> merged, indent |-> indent, lines |-> lines,
                 raised |-> FALSE, repl |-> <<>>]
    IN  IF lines = <<>> THEN [site EXCEPT !.repl = group0]
        ELSE IF query_start = 0 THEN [site EXCEPT !.raised = TRUE]
        ELSE [site EXCEPT !.repl =
                 SubSeq(original_line, 1, query_start - 1)
                 \o method \o <<LPAREN, NL>> \o Join(lines, <<NL>>)]

RECURSIVE SubFrom(_, _, _, _)

\* the pass resuming at the last character of a match, not after it
SubFrom_resume(s, pos, out, done) ==
    Bind(FindMatch(s, pos), LAMBDA p :
        IF p = 0
        THEN [raised |-> FALSE, out |-> out \o SubSeq(s, pos, Len(s)),
              sites |-> done]
        ELSE
    Bind(MatchAt(s, p), LAMBDA m :
    Bind(replace_sql(SubSeq(s, p, m.stop), SubSeq(s, m.g1from, m.g1to)), LAMBDA r :
    Bind(Append(done, [start |-> p, stop |-> m.stop, sql |-> r.sql,
                       indent |-> r.indent, lines |-> r.lines,
                       raised |-> r.raised, repl |-> r.repl]), LAMBDA sofar :
        IF r.raised
        THEN [raised |-> TRUE, out |-> <<>>, sites |-> sofar]
        ELSE
    Bind(out \o SubSeq(s, pos, p - 1) \o r.repl, LAMBDA text :
    Bind(m.stop, LAMBDA resume :
        SubFrom(s, resume, text, sofar)))))))

\* re.sub(sql_pattern, replace_sql, content): one left-to-right pass from
\* pos, out the text produced so far, done the calls of replace_sql so far
SubFrom(s, pos, out, done) ==
    Bind(FindMatch(s, pos), LAMBDA p :
        IF p = 0
        THEN [raised |-> FALSE, out |-> out \o SubSeq(s, pos, Len(s)),
              sites |-> done]
        ELSE
    Bind(MatchAt(s, p), LAMBDA m :
    Bind(replace_sql(SubSeq(s, p, m.stop), SubSeq(s, m.g1from, m.g1to)), LAMBDA r :
    Bind(Append(done, [start |-> p, stop |-> m.stop, sql |-> r.sql,
                       indent |-> r.indent, lines |-> r.lines,
                       raised |-> r.raised, repl |-> r.repl]), LAMBDA sofar :
        IF r.raised
        THEN [raised |-> TRUE, out |-> <<>>, sites |-> sofar]
        ELSE
    Bind(out \o SubSeq(s, pos, p - 1) \o r.repl, LAMBDA text :
    Bind(m.stop + 1, LAMBDA resume :
        SubFrom(s, resume, text, sofar)))))))

Rewrite(text) == SubFrom(text, 1, <<>>, <<>>)

----------------------------------------------------------------------------
(* SpecFormat: format_sql on every SQL text built from at most MaxPieces    *)
(* pieces, called with an empty or a four-space base indentation           *)

MaxPieces == 4

SqlPieces ==
    { <<"a", " ">>,
      <<"b", ",">>,
      <<",">>,
      <<"F", "R", "O", "M", " ">>,
      <<"l", "e", "f", "t", " ">>,
      <<"J", "O", "I", "N", " ">>,
      <<" ", " ", "\n">> }

RECURSIVE Concat(_)
Concat(seqs) == IF seqs = <<>> THEN <<>> ELSE Head(seqs) \o Concat(Tail(seqs))

SqlTexts ==
    { Concat(ps) : ps \in UNION { [1..n -> SqlPieces] : n \in 0..MaxPieces } }

Indents == { <<>>, <<SP, SP, SP, SP>> }

NoFormat ==
    /\ sql_text = <<>> /\ base_indent = <<>> /\ parts = <<>>
    /\ formatted_parts = <<>> /\ formatted_lines = <<>> /\ fpc = "idle"

NoRewrite ==
    /\ content = <<>> /\ new_content = <<>> /\ sites = <<>> /\ rpc = "idle"

NoDriver ==
    /\ tree = <<>> /\ fs = <<>> /\ todo = {} /\ attempts = <<>>
    /\ stdout = <<>> /\ stderr = <<>> /\ dpc = "idle"

InitFormat ==
    /\ sql_text \in SqlTexts
    /\ base_indent \in Indents
    /\ parts = <<>>
    /\ formatted_parts = <<>>
    /\ formatted_lines = <<>>
    /\ fpc = "call"
    /\ NoRewrite
    /\ NoDriver

FormatSql ==
    /\ fpc = "call"
    /\ parts' = Segment(SplitWS(Clean(sql_text)))
    /\ formatted_parts' = Render(parts')
    /\ formatted_lines' = format_sql(sql_text, base_indent)
    /\ fpc' = "done"
    /\ UNCHANGED <<sql_text, base_indent, rvars, dvars>>

NextFormat == FormatSql

SpecFormat == InitFormat /\ [][NextFormat]_vars

----------------------------------------------------------------------------
(* SpecRewrite: process_file on every file text built from at most         *)
(* MaxFilePieces pieces                                                    *)

MaxFilePieces == 4

FilePieces ==
    { \*     h.
      <<" ", " ", " ", " ", "h", ".">>,
      \* createQuery("
      createQuery \o <<LPAREN, QUOTE>>,
      \* commit("
      commit \o <<LPAREN, QUOTE>>,
      \* SET a," +\n"b
      <<"S", "E", "T", " ", "a", ",", "\"", " ", "+", "\n", "\"", "b">>,
      \* commit
      <<"c", "o", "m", "m", "i", "t", " ">>,
      \* ,
      <<",", " ">>,
      \* ")\n
      <<"\"", ")", "\n">>,
      \* createUpdate("x")
      createUpdate \o <<LPAREN, QUOTE, "x", QUOTE, ")">> }

FileTexts ==
    { Concat(ps) : ps \in UNION { [1..n -> FilePieces] : n \in 0..MaxFilePieces } }

InitRewrite ==
    /\ content \in FileTexts
    /\ new_content = <<>>
    /\ sites = <<>>
    /\ rpc = "read"
    /\ NoFormat
    /\ NoDriver

\* process_file when re.sub returns: the new text is written
ProcessFileWrites ==
    /\ rpc = "read"
    /\ ~ Rewrite(content).raised
    /\ new_content' = Rewrite(content).out
    /\ sites' = Rewrite(content).sites
    /\ rpc' = "written"
    /\ UNCHANGED <<content, fvars, dvars>>

\* process_file when replace_sql raises inside re.sub: nothing is written
ProcessFileRaises ==
    /\ rpc = "read"
    /\ Rewrite(content).raised
    /\ sites' = Rewrite(content).sites
    /\ rpc' = "raised"
    /\ UNCHANGED <<content, new_content, fvars, dvars>>

NextRewrite == ProcessFileWrites \/ ProcessFileRaises

SpecRewrite == InitRewrite /\ [][NextRewrite]_vars

----------------------------------------------------------------------------
(* Spec: main() over a directory tree of at most MaxFiles files            *)

MaxFiles == 3

FileNames ==
    { <<"U", "D", "a", "o", ".", "j", "a", "v", "a">>,
      <<"X", "D", "A", "O", ".", "j", "a", "v", "a">>,
      <<"D", "a", "o", ".", "j", "a", "v", "a">>,
      <<"d", "a", "o", ".", "j", "a", "v", "a">>,
      <<"D", "a", "o", ".", "j", "a", "v", "a", "x">> }

\* str.endswith(suffix)
EndsWith(s, suffix) ==
    /\ Len(suffix) <= Len(s)
    /\ SubSeq(s, Len(s) - Len(suffix) + 1, Len(s)) = suffix

\* file.endswith('Dao.java') or file.endswith('DAO.java')
Selected(file) ==
    \/ EndsWith(file, <<"D", "a", "o", ".", "j", "a", "v", "a">>)
    \/ EndsWith(file, <<"D", "A", "O", ".", "j", "a", "v", "a">>)

\* the file texts of the tree: a call site to rewrite, no call site, and a
\* call site on which replace_sql raises
TreeTexts ==
    { <<" ", " ", " ", " ", "h", ".">> \o createUpdate \o <<LPAREN, QUOTE, "x", QUOTE, ")">>,
      <<" ", " ", " ", " ", "h", ".">>,
      createQuery \o <<LPAREN, QUOTE>> \o commit \o <<QUOTE, ")">> }

\* process_file's re.sub on each text of the tree
Rewritten == [t \in TreeTexts |-> Rewrite(t)]

\* a clause "except OSError" in place of "except Exception"
Caught_oserror(cause) == cause = "OSError"

\* the exception classes the clause "except Exception" catches
Caught(cause) == cause \in {"OSError", "AttributeError"}

InitDriver ==
    /\ \E names \in SUBSET FileNames :
           /\ Cardinality(names) <= MaxFiles
           /\ tree \in [names -> TreeTexts]
    /\ fs = tree
    /\ todo = DOMAIN tree
    /\ attempts = [f \in DOMAIN tree |-> 0]
    /\ stdout = <<>>
    /\ stderr = <<>>
    /\ dpc = "walk"
    /\ NoFormat
    /\ NoRewrite

\* the loop body for a file whose name has neither suffix
SkipFile(f) ==
    /\ dpc = "walk" /\ f \in todo /\ ~ Selected(f)
    /\ todo' = todo \ {f}
    /\ UNCHANGED <<tree, fs, attempts, stdout, stderr, dpc, fvars, rvars>>

\* what the try statement does with an exception of process_file
Raised(f, cause) ==
    IF Caught(cause)
    THEN /\ stderr' = Append(stderr, [line |-> "Error processing", path |-> f,
                                      cause |-> cause])
         /\ dpc' = dpc
    ELSE /\ stderr' = Append(stderr, [line |-> "Traceback", path |-> f,
                                      cause |-> cause])
         /\ dpc' = "crashed"

\* process_file returns: the rewritten text is on disk
ProcessFile(f) ==
    /\ dpc = "walk" /\ f \in todo /\ Selected(f)
    /\ ~ Rewritten[fs[f]].raised
    /\ todo' = todo \ {f}
    /\ attempts' = [attempts EXCEPT ![f] = @ + 1]
    /\ fs' = [fs EXCEPT ![f] = Rewritten[fs[f]].out]
    /\ stdout' = stdout \o <<[line |-> "Processing file", path |-> f],
                             [line |-> "Updated", path |-> f]>>
    /\ UNCHANGED <<tree, stderr, dpc, fvars, rvars>>

\* replace_sql raises inside re.sub: the file is not opened for writing
ProcessFileFormatError(f) ==
    /\ dpc = "walk" /\ f \in todo /\ Selected(f)
    /\ Rewritten[fs[f]].raised
    /\ todo' = todo \ {f}
    /\ attempts' = [attempts EXCEPT ![f] = @ + 1]
    /\ stdout' = Append(stdout, [line |-> "Processing file", path |-> f])
    /\ Raised(f, "AttributeError")
    /\ UNCHANGED <<tree, fs, fvars, rvars>>

\* open(file_path, 'r') or f.read() raises
ProcessFileReadError(f) ==
    /\ dpc = "walk" /\ f \in todo /\ Selected(f)
    /\ todo' = todo \ {f}
    /\ attempts' = [attempts EXCEPT ![f] = @ + 1]
    /\ stdout' = Append(stdout, [line |-> "Processing file", path |-> f])
    /\ Raised(f, "OSError")
    /\ UNCHANGED <<tree, fs, fvars, rvars>>

\* open(file_path, 'w') raises and leaves the file as it was, or f.write
\* raises after open truncated it
ProcessFileWriteError(f) ==
    /\ dpc = "walk" /\ f \in todo /\ Selected(f)
    /\ ~ Rewritten[fs[f]].raised
    /\ todo' = todo \ {f}
    /\ attempts' = [attempts EXCEPT ![f] = @ + 1]
    /\ \E left \in {fs[f], <<>>} : fs' = [fs EXCEPT ![f] = left]
    /\ stdout' = Append(stdout, [line |-> "Processing file", path |-> f])
    /\ Raised(f, "OSError")
    /\ UNCHANGED <<tree, fvars, rvars>>

\* os.walk is exhausted, main returns and the completion line is printed
Complete ==
    /\ dpc = "walk" /\ todo = {}
    /\ stdout' = Append(stdout, [line |-> "DAO SQL formatting completed.",
                                 path |-> <<>>])
    /\ dpc' = "exit"
    /\ UNCHANGED <<tree, fs, todo, attempts, stderr, fvars, rvars>>

Next ==
    \/ \E f \in todo : SkipFile(f)
    \/ \E f \in todo : ProcessFile(f)
    \/ \E f \in todo : ProcessFileFormatError(f)
    \/ \E f \in todo : ProcessFileReadError(f)
    \/ \E f \in todo : ProcessFileWriteError(f)
    \/ Complete

Spec == InitDriver /\ [][Next]_vars /\ WF_vars(Next)

----------------------------------------------------------------------------
(* Properties of format_sql, checked under SpecFormat                      *)

\* the text between the first and the last double quote of an emitted line
QuotedContent(line) ==
    LET first == CHOOSE i \in 1..Len(line) :
                     line[i] = QUOTE /\ \A j \in 1..(i - 1) : line[j] # QUOTE
    IN  SubSeq(line, first + 1, Len(line) - 1)

Contents == [i \in 1..Len(formatted_lines) |-> QuotedContent(formatted_lines[i])]

\* the longest rendered line, trailing whitespace not counted
MaxRendered ==
    LET lens == { Len(RStripWS(formatted_parts[i])) : i \in 1..Len(formatted_parts) }
    IN  CHOOSE m \in lens : \A n \in lens : n <= m

\* C1: when format_sql returns at least one line, every quoted content has
\* the same length, that length is the longest rendered line (trailing
\* whitespace stripped) plus one, no rendered line is truncated, and every
\* quoted content ends with a space.
C1_UniformWidth ==
    (fpc = "done" /\ formatted_lines # <<>>) =>
        /\ Len(formatted_lines) = Len(formatted_parts)
        /\ \A i \in 1..Len(formatted_lines) :
            /\ Len(Contents[i]) = MaxRendered + 1
            /\ RStripWS(Contents[i]) = formatted_parts[i]
            /\ Contents[i][Len(Contents[i])] = SP

C1_Witness ==
    /\ fpc = "done"
    /\ Len(formatted_lines) >= 3
    /\ \E i, j \in 1..Len(formatted_parts) :
           Len(formatted_parts[i]) + 2 <= Len(formatted_parts[j])

\* a line's content with the padding and the two-space marker removed
Unmarked(c) ==
    LET t == RStripWS(c)
    IN  IF Len(t) >= 2 /\ SubSeq(t, 1, 2) = Marker THEN SubSeq(t, 3, Len(t)) ELSE t

\* the SQL text read back from the emitted block
Reconstructed ==
    CollapseWS(StripWS(Join([i \in 1..Len(Contents) |-> Unmarked(Contents[i])],
                            <<SP>>)))

CommasAsSpaces(s) == [i \in 1..Len(s) |-> IF s[i] = COMMA THEN SP ELSE s[i]]

WithoutWhitespace(s) == SelectSeq(s, LAMBDA c : c \notin Whitespace)

IsList(part) == ~ is_sql_keyword(part) /\ HasComma(part)

\* no list clause has an empty item (a leading, trailing or doubled comma)
NoEmptyItem ==
    \A k \in 1..Len(parts) :
        IsList(parts[k]) =>
            \A f \in 1..Len(SplitComma(parts[k])) :
                StripWS(SplitComma(parts[k])[f]) # <<>>

\* C2 as stated: the block read back, whitespace collapsed, is exactly the
\* whitespace-collapsed, trimmed input.
C2_RoundTripExact ==
    fpc = "done" => Reconstructed = CollapseWS(StripWS(sql_text))

\* C2 as amended: the block read back equals the input up to commas and the
\* whitespace around them.  With every comma read as a space both have the
\* same words in the same order; and when no list clause has an empty item
\* the two texts are equal once whitespace is removed (every comma is kept,
\* in place).
C2_RoundTrip ==
    fpc = "done" =>
        /\ SplitWS(CommasAsSpaces(Reconstructed)) = SplitWS(CommasAsSpaces(sql_text))
        /\ NoEmptyItem =>
               WithoutWhitespace(Reconstructed) = WithoutWhitespace(sql_text)

C2_Witness ==
    /\ fpc = "done"
    /\ Len(formatted_lines) >= 3
    /\ NoEmptyItem
    /\ \E k \in 1..Len(parts) : IsList(parts[k])
    /\ Reconstructed # CollapseWS(StripWS(sql_text))

TwoWordKeywords ==
    { <<"O", "R", "D", "E", "R", " ", "B", "Y">>,
      <<"G", "R", "O", "U", "P", " ", "B", "Y">>,
      <<"L", "E", "F", "T", " ", "J", "O", "I", "N">>,
      <<"R", "I", "G", "H", "T", " ", "J", "O", "I", "N">>,
      <<"I", "N", "N", "E", "R", " ", "J", "O", "I", "N">> }

InputWords == SplitWS(CollapseWS(StripWS(sql_text)))

\* words i and i+1 of the collapsed input form a two-word keyword
PairAt(i) ==
    /\ i < Len(InputWords)
    /\ Upper(InputWords[i] \o <<SP>> \o InputWords[i + 1]) \in TwoWordKeywords

\* the index in InputWords of the first word of clause k
RECURSIVE ClauseStart(_)
ClauseStart(k) ==
    IF k = 1 THEN 1 ELSE ClauseStart(k - 1) + Len(SplitWS(parts[k - 1]))

\* C4: every adjacent pair of input words that forms a two-word keyword is
\* one clause of its own, at the pair's position, and is rendered as one
\* line without a marker.
C4_TwoWordKeywordKept ==
    fpc = "done" =>
        \A i \in 1..Len(InputWords) :
            PairAt(i) =>
                /\ \E k \in 1..Len(parts) :
                       /\ ClauseStart(k) = i
                       /\ parts[k] = InputWords[i] \o <<SP>> \o InputWords[i + 1]
                /\ \E j \in 1..Len(formatted_parts) :
                       formatted_parts[j] = InputWords[i] \o <<SP>> \o InputWords[i + 1]

C4_Witness ==
    /\ fpc = "done"
    /\ \E i \in 2..Len(InputWords) : PairAt(i) /\ i + 1 < Len(InputWords)

\* the non-empty, trimmed comma-separated items of a clause, in order
ItemsOf(part) ==
    SelectSeq([f \in 1..Len(SplitComma(part)) |-> StripWS(SplitComma(part)[f])],
              LAMBDA it : it # <<>>)

\* the lines C5 prescribes for one clause
ExpectedLines(part) ==
    IF Upper(part) \in keywords THEN <<part>>
    ELSE IF HasComma(part)
         THEN [i \in 1..Len(ItemsOf(part)) |->
                  IF i < Len(ItemsOf(part))
                  THEN <<SP, SP>> \o ItemsOf(part)[i] \o <<COMMA>>
                  ELSE <<SP, SP>> \o ItemsOf(part)[i]]
    ELSE <<<<SP, SP>> \o part>>

\* C5: the rendered lines are, clause by clause, one unmarked line for a
\* keyword clause, one marked line for a free-text clause without a comma,
\* and for a free-text clause with a comma one marked line per non-empty
\* item, each but the last followed by a comma.
C5_ListRendering ==
    fpc = "done" =>
        formatted_parts =
            Concat([k \in 1..Len(parts) |-> ExpectedLines(parts[k])])

C5_Witness ==
    /\ fpc = "done"
    /\ \E k \in 1..Len(parts) :
           /\ IsList(parts[k])
           /\ Len(ItemsOf(parts[k])) >= 2
           /\ Len(SplitComma(parts[k])) > Len(ItemsOf(parts[k]))
    /\ \E k \in 1..Len(parts) : is_sql_keyword(parts[k])

\* the call site createQuery("<sql_text>") as a file text
CallSite == createQuery \o <<LPAREN, QUOTE>> \o sql_text \o <<QUOTE>>

\* every word of a keyword: the one-word keywords and both words of the
\* two-word keywords
KeywordWords == UNION { { SplitWS(kw)[i] : i \in 1..Len(SplitWS(kw)) } : kw \in keywords }

\* no item of a list clause begins or ends with a word of a keyword
NoKeywordAtComma ==
    \A k \in 1..Len(parts) :
        IsList(parts[k]) =>
            \A i \in 1..Len(ItemsOf(parts[k])) :
                LET ws == SplitWS(ItemsOf(parts[k])[i])
                IN  /\ Upper(ws[1]) \notin KeywordWords
                    /\ Upper(ws[Len(ws)]) \notin KeywordWords

----------------------------------------------------------------------------
(* Properties of process_file's rewrite, checked under SpecRewrite         *)

\* the text of call site k as matched in the file that was read
MatchedText(k) == SubSeq(content, sites[k].start, sites[k].stop)

\* the method name the match of call site k starts with
MatchedMethod(k) ==
    CHOOSE m \in {MethodNames[i] : i \in 1..Len(MethodNames)} :
        StartsWithAt(content, sites[k].start, m)

\* the position in content where the source line holding position p starts
RECURSIVE LineStart(_)
LineStart(p) == IF p = 1 \/ content[p - 1] = NL THEN p ELSE LineStart(p - 1)

\* the number of blanks that start the source line holding call site k
RECURSIVE BlanksFrom(_)
BlanksFrom(p) ==
    IF p <= Len(content) /\ content[p] \in {" ", "\t"} THEN 1 + BlanksFrom(p + 1) ELSE 0

SourceIndent(k) == BlanksFrom(LineStart(sites[k].start))

LeadingBlanks(line) == Len(line) - Len(LStripWS(line))

\* C3 as stated: every line of the block emitted for a call site is
\* indented by the indentation of the source line holding the call plus 16.
C3_IndentFromSourceLine ==
    \A k \in 1..Len(sites) :
        \A i \in 1..Len(sites[k].lines) :
            LeadingBlanks(sites[k].lines[i]) = SourceIndent(k) + IndentExtra

\* C7: a call site whose merged SQL text formats to zero lines raises
\* nothing and is replaced by the matched text itself.
C7_EmptyBlockKeepsMatch ==
    \A k \in 1..Len(sites) :
        format_sql(MergeContinuations(SubSeq(content, MatchAt(content, sites[k].start).g1from,
                                             MatchAt(content, sites[k].start).g1to)),
                   <<>>) = <<>>
        => /\ ~ sites[k].raised
           /\ sites[k].repl = MatchedText(k)
           /\ rpc = "written" /\ Len(sites) = 1 => new_content = content

C7_Witness ==
    /\ rpc = "written"
    /\ \E k \in 1..Len(sites) :
           /\ sites[k].lines = <<>>
           /\ \E c \in 1..Len(sites[k].sql) : sites[k].sql[c] = COMMA
    /\ \E k \in 1..Len(sites) : sites[k].lines # <<>>

\* the unmatched text before call site k (after call site k - 1), and the
\* text after the last call site for k = Len(sites) + 1
Gap(k) ==
    SubSeq(content,
           IF k = 1 THEN 1 ELSE sites[k - 1].stop + 1,
           IF k = Len(sites) + 1 THEN Len(content) ELSE sites[k].start - 1)

RECURSIVE Stitched(_)
Stitched(k) ==
    IF k = Len(sites) + 1 THEN Gap(k)
    ELSE Gap(k) \o sites[k].repl \o Stitched(k + 1)

\* C8: the text written is the text read with each matched span, taken
\* left to right without overlap, replaced once by its replacement and
\* every character outside the spans kept in place; the spans are exactly
\* the leftmost matches of the pattern; with no match the text written is
\* the text read.
C8_OnlyMatchedSpansChange ==
    rpc = "written" =>
        /\ new_content = Stitched(1)
        /\ \A k \in 1..Len(sites) :
               /\ MatchAt(content, sites[k].start).ok
               /\ MatchAt(content, sites[k].start).stop = sites[k].stop
               /\ sites[k].start <= sites[k].stop
               /\ k > 1 => sites[k - 1].stop < sites[k].start
        /\ \A p \in 1..Len(content) :
               (\A k \in 1..Len(sites) : p < sites[k].start \/ p > sites[k].stop)
                   => ~ MatchAt(content, p).ok
        /\ sites = <<>> => new_content = content

C8_Witness ==
    /\ rpc = "written"
    /\ Len(sites) >= 2
    /\ Gap(1) # <<>> /\ Gap(2) # <<>>
    /\ sites[1].repl # MatchedText(1)

\* the block of call site k as replace_sql is to splice it in
RECURSIVE BlockShape(_, _)
BlockShape(lines, i) ==
    IF i > Len(lines) THEN TRUE
    ELSE /\ LET rest == LStripWS(lines[i])
            IN  IF i = 1 THEN CharAt(rest, 1) = QUOTE
                ELSE SubSeq(rest, 1, 3) = <<PLUS, SP, QUOTE>>
         /\ BlockShape(lines, i + 1)

\* C9 as stated: a call site whose SQL formats to at least one line is
\* replaced by the name of the method the match starts with, "(", a newline
\* and the block, whose first line opens with a quote and whose later lines
\* open with + and a quote; whatever the SQL text holds.
C9_ReplacementShape ==
    \A k \in 1..Len(sites) :
        sites[k].lines # <<>> =>
            /\ ~ sites[k].raised
            /\ sites[k].repl =
                   MatchedMethod(k) \o <<LPAREN, NL>> \o Join(sites[k].lines, <<NL>>)
            /\ BlockShape(sites[k].lines, 1)

----------------------------------------------------------------------------
(* Properties of main, checked under Spec                                  *)

\* the number of lines of log that carry this text for this path
Count(log, text, f) ==
    Cardinality({ i \in 1..Len(log) : log[i].line = text /\ log[i].path = f })

Failed(f) == Count(stderr, "Error processing", f) > 0

\* what main has done once the completion line is printed
C6_AtExit ==
    dpc = "exit" =>
        /\ \A f \in DOMAIN tree :
            /\ attempts[f] = IF Selected(f) THEN 1 ELSE 0
            /\ Count(stdout, "Processing file", f) = attempts[f]
            /\ ~ Selected(f) =>
                   /\ fs[f] = tree[f]
                   /\ ~ Failed(f)
                   /\ Count(stdout, "Updated", f) = 0
            /\ (Selected(f) /\ Rewrite(tree[f]).raised) => Failed(f)
            /\ (Selected(f) /\ Failed(f)) =>
                   /\ Count(stderr, "Error processing", f) = 1
                   /\ Count(stdout, "Updated", f) = 0
            /\ (Selected(f) /\ ~ Failed(f)) =>
                   /\ Count(stdout, "Updated", f) = 1
                   /\ fs[f] = Rewrite(tree[f]).out
        /\ stdout[Len(stdout)].line = "DAO SQL formatting completed."
        /\ \A i \in 1..Len(stderr) : stderr[i].line = "Error processing"

\* C6: every run of main reaches the completion line, whichever files
\* fail; and once the completion line is printed every
\* selected file was attempted exactly once (and no other file), every
\* file whose rewrite raises failed, every failed file has exactly one
\* error line naming it and no Updated line, every other selected file has
\* one Updated line and holds its rewritten text, and the completion line
\* is the last line printed.
C6_FailureIsolation == []C6_AtExit /\ <>(dpc = "exit")

C6_Witness ==
    /\ dpc = "exit"
    /\ \E f, g, h \in DOMAIN tree :
           /\ Selected(f) /\ Failed(f) /\ stderr[1].path = f
           /\ stderr[1].cause = "AttributeError"
           /\ Selected(g) /\ ~ Failed(g) /\ fs[g] # tree[g]
           /\ stdout[Len(stdout) - 1] = [line |-> "Updated", path |-> g]
           /\ Selected(h) /\ Failed(h) /\ h # f
           /\ stderr[2] = [line |-> "Error processing", path |-> h, cause |-> "OSError"]

====
